---------------------------- MODULE Spec2Model ----------------------------
(***************************************************************************)
(* Model of the two command-line entry points of szurubooru-toolkit:       *)
(*   scripts/tag_posts.py        (the tag pipeline)                        *)
(*   scripts/import_from_url.py  (the import pipeline and set_tags)        *)
(*                                                                         *)
(* A Python str is modelled as a sequence of one-character strings, so     *)
(* that split, replace, lower, startswith, find and slicing are computed   *)
(* as Python computes them.  A tag list is a sequence of such strings.     *)
(***************************************************************************)
EXTENDS Integers, Sequences, FiniteSets, TLC

(***************************************************************************)
(* Bounds of the model.                                                    *)
(***************************************************************************)
\* longest post.tags list the implication loop may build
MaxTagsLen == 7
\* most posts the query returns
MaxPosts == 2
\* most files the downloader produces
MaxFiles == 2

(***************************************************************************)
(* Python str and list primitives.                                         *)
(***************************************************************************)
\* U+3000, the full-width space, as one character
U3000 == "U+3000"

Range(s) == {s[k] : k \in 1..Len(s)}

\* the number of occurrences of x in a list
Count(s, x) == Cardinality({k \in 1..Len(s) : s[k] = x})

\* x in list
Contains(s, x) == \E k \in 1..Len(s) : s[k] = x

\* [t for t in s if t not in drop]
RECURSIVE FilterNotIn(_, _)
FilterNotIn(s, drop) ==
    IF s = <<>> THEN <<>>
    ELSE IF Contains(drop, Head(s)) THEN FilterNotIn(Tail(s), drop)
         ELSE <<Head(s)>> \o FilterNotIn(Tail(s), drop)

\* list.remove(x): drops the first occurrence only
RECURSIVE RemoveFirst(_, _)
RemoveFirst(s, x) ==
    IF s = <<>> THEN <<>>
    ELSE IF Head(s) = x THEN Tail(s)
         ELSE <<Head(s)>> \o RemoveFirst(Tail(s), x)

\* str.replace(c, r) for a one-character c and a string r
RECURSIVE Replace(_, _, _)
Replace(s, c, r) ==
    IF s = <<>> THEN <<>>
    ELSE (IF Head(s) = c THEN r ELSE <<Head(s)>>) \o Replace(Tail(s), c, r)

UpperCase == <<"A","B","C","D","E","F","G","H","I","J","K","L","M",
               "N","O","P","Q","R","S","T","U","V","W","X","Y","Z">>
LowerCase == <<"a","b","c","d","e","f","g","h","i","j","k","l","m",
               "n","o","p","q","r","s","t","u","v","w","x","y","z">>

LowerChar(c) ==
    IF \E k \in 1..Len(UpperCase) : UpperCase[k] = c
    THEN LowerCase[CHOOSE k \in 1..Len(UpperCase) : UpperCase[k] = c]
    ELSE c

\* str.lower()
Lower(s) == [k \in 1..Len(s) |-> LowerChar(s[k])]

\* str.startswith(p)
StartsWith(s, p) == Len(s) >= Len(p) /\ SubSeq(s, 1, Len(p)) = p

\* str.find(c), 1-based; 0 stands for Python's -1
Find(s, c) ==
    IF Contains(s, c) THEN CHOOSE k \in 1..Len(s) : s[k] = c /\ \A j \in 1..(k - 1) : s[j] # c
    ELSE 0

\* p in s, for strings
SubstringIn(p, s) ==
    \E k \in 1..(Len(s) - Len(p) + 1) : SubSeq(s, k, k + Len(p) - 1) = p

\* str.split(sep) for a one-character sep: empty fields are kept
RECURSIVE SplitOn(_, _)
SplitOn(s, sep) ==
    LET k == Find(s, sep) IN
    IF k = 0 THEN <<s>>
    ELSE <<SubSeq(s, 1, k - 1)>> \o SplitOn(SubSeq(s, k + 1, Len(s)), sep)

\* the characters str.split() treats as whitespace
IsSpace(c) == c \in {" ", "\t", "\n", U3000}

\* str.split(): split on runs of whitespace, no empty fields
RECURSIVE SplitWs(_)
SplitWs(s) ==
    IF s = <<>> THEN <<>>
    ELSE IF IsSpace(Head(s)) THEN SplitWs(Tail(s))
    ELSE LET stop == IF \E k \in 1..Len(s) : IsSpace(s[k])
                     THEN CHOOSE k \in 1..Len(s) :
                              IsSpace(s[k]) /\ \A j \in 1..(k - 1) : ~IsSpace(s[j])
                     ELSE Len(s) + 1
         IN <<SubSeq(s, 1, stop - 1)>> \o SplitWs(SubSeq(s, stop, Len(s)))

\* every ordering of a finite set, as sequences
RECURSIVE Orderings(_)
Orderings(S) ==
    IF S = {} THEN {<<>>}
    ELSE UNION {{<<x>> \o r : r \in Orderings(S \ {x})} : x \in S}

(***************************************************************************)
(* Inputs of the tag pipeline.                                             *)
(***************************************************************************)
X == <<"x">>
Y == <<"y">>
Z == <<"z">>

\* the tags known to the target service
Tags == {X, Y, Z}

\* raw --add-tags values; the empty string stands for an absent option
\* (argparse's None): both are falsy, and the code only tests truthiness
AddArgs == {<<>>, <<"x">>, <<"x", ",", " ", "y">>}

\* raw --remove-tags values
RemoveArgs == {<<>>, <<"y">>, <<"x", ",", "z">>}

\* what scrape_url_tags may return for a --url
ScrapePool == {<<Z>>}

\* the tags a matched post may carry before the run
PriorPool == {<<Z>>, <<Y, X>>}

\* a tag's implication list on the target service
ImplLists == {<<>>, <<X>>, <<Y>>, <<Z>>}

NoImplications == [t \in Tags |-> <<>>]

RECURSIVE SeqsUpTo(_, _)
SeqsUpTo(S, n) ==
    IF n = 0 THEN {<<>>}
    ELSE SeqsUpTo(S, n - 1) \cup
         {Append(s, x) : s \in {q \in SeqsUpTo(S, n - 1) : Len(q) = n - 1}, x \in S}

VARIABLES
    entry,        \* which script runs: "tag" or "import"
    pc,           \* position in main
    exitStatus,   \* the process's exit status, -1 while it runs
    logged,       \* logger.catch logged an exception
    raised,       \* an exception other than an interrupt escaped main's body
    interrupted,  \* a KeyboardInterrupt ended the run
    args,         \* tag_posts: the parsed command line
    add_tags,     \* tag_posts: add_tags of main
    remove_tags,  \* tag_posts: remove_tags of main
    graph,        \* target service: tag -> implication list
    posts,        \* tag_posts: posts the generator has yet to yield
    post_prior,   \* the current post's tags as fetched
    post_tags,    \* post.tags of the current post
    alias,        \* post.tags is the very list object add_tags
    idx,          \* position of "for tag in post.tags"
    expand_from,  \* post.tags when the implication loop was entered
    seen,         \* unvisited suffixes of post.tags met at earlier loop heads
    updated,      \* the update_post calls made so far
    given_add,    \* add_tags as parse_args returned it
    site,         \* import: the site the URL dispatch detected
    files_left,   \* import: downloaded files not yet processed
    dir_exists,   \* import: the run's temporary download directory exists
    downloaded,   \* import: the downloader was invoked
    metadata,     \* import: the sidecar record of the current file
    norm,         \* import: what the normalization of the current file did
    saucenao_limit_reached,  \* import: the rate-limit flag of main
    uploads       \* import: the upload_media.main calls made so far

tagVars == <<args, add_tags, remove_tags, graph, posts, post_prior, post_tags,
             alias, idx, expand_from, seen, updated, given_add>>
importVars == <<site, files_left, dir_exists, downloaded, metadata, norm,
                saucenao_limit_reached, uploads>>
procVars == <<entry, pc, exitStatus, logged, raised, interrupted>>
vars == <<procVars, tagVars, importVars>>

\* Python truthiness of a str or list
Truthy(v) == v # <<>>

(***************************************************************************)
(* tag_posts.py                                                            *)
(***************************************************************************)
\* parse_args, lines 88-91
ParseAddTags(raw) ==
    IF Truthy(raw) THEN SplitOn(Replace(raw, " ", <<>>), ",") ELSE <<>>

\* parse_args, lines 92-93: a falsy value is returned as it is
ParseRemoveTags(raw) ==
    IF Truthy(raw) THEN SplitOn(Replace(raw, " ", <<>>), ",") ELSE raw

\* add_tags as parse_args returns it, for a given scrape result
ParsedAddTags(a, scraped) ==
    ParseAddTags(a.add) \o (IF a.url THEN scraped ELSE <<>>)

\* ApplyMode with 'overwrite' keeping the prior tags, as 'append' does
ApplyModeKeepsPrior(mode, tags, add) ==
    IF Truthy(add) THEN Orderings(Range(tags) \cup Range(add)) ELSE {tags}

\* main, lines 146-151: the lists post.tags may become (a set's iteration
\* order is not fixed by the language, so every ordering is possible)
ApplyMode(mode, tags, add) ==
    IF mode = "append"
    THEN IF Truthy(add) THEN Orderings(Range(tags) \cup Range(add)) ELSE {tags}
    ELSE IF Truthy(add) THEN {add} ELSE {tags}

\* RemoveTags testing each tag against the first remove-tag only
RemoveTagsFirstOnly(tags, remove) ==
    IF Truthy(remove) THEN FilterNotIn(tags, <<remove[1]>>) ELSE tags

\* main, lines 153-154
RemoveTags(tags, remove) ==
    IF Truthy(remove) THEN FilterNotIn(tags, remove) ELSE tags

\* szuru.api.getTag(name): the tag resource with that name
GetTag(name) == [primary_name |-> name, implications |-> graph[name]]

\* line 162 compares the tag resource getTag returned with the strings in
\* post.tags: an object of another type never equals a str
TagEqualsName(tagObject, name) == FALSE

\* szuru_implication in post.tags
TagInList(tagObject, tags) ==
    \E k \in 1..Len(tags) : TagEqualsName(tagObject, tags[k])

\* main, lines 160-163: the inner loop over one tag's implications
RECURSIVE AppendImplications(_, _)
AppendImplications(tags, implications) ==
    IF implications = <<>> THEN tags
    ELSE LET szuru_implication == GetTag(Head(implications)) IN
         AppendImplications(
             IF ~TagInList(szuru_implication, tags)
             THEN Append(tags, szuru_implication.primary_name)
             ELSE tags,
             Tail(implications))

\* @logger.catch with its defaults (lines 121 and 110 of the two scripts):
\* the exception is logged and not re-raised, main returns None and the
\* interpreter ends with status 0
LoggerCatchStatus == 0

\* a sidecar field that is not there
Absent == [kind |-> "absent", val |-> <<>>]

NoMetadata == [tags |-> Absent, tag_string |-> Absent, user |-> Absent,
               rating |-> FALSE]

NoNorm == [ran |-> FALSE]

\* the import pipeline's state while the tag pipeline runs
ImportIdle ==
    /\ site = "none"
    /\ files_left = 0
    /\ dir_exists = FALSE
    /\ downloaded = FALSE
    /\ metadata = NoMetadata
    /\ norm = NoNorm
    /\ saucenao_limit_reached = FALSE
    /\ uploads = <<>>

(***************************************************************************)
(* Inputs of the import pipeline.                                          *)
(***************************************************************************)
R18 == <<"R", "-", "1", "8">>
ArtistPrefix == <<"a", "r", "t", "i", "s", "t">>
JohnDoe == <<"J", "o", "h", "n", " ", "D", "o", "e">>
\* the e-hentai tag 'artist:John Doe'
ArtistJohnDoe == ArtistPrefix \o <<":">> \o JohnDoe
\* a tag that starts with 'artist' and holds no colon
Artistic == ArtistPrefix \o <<"i", "c">>
A == <<"a">>

\* the sites of url_mappings whose records set_tags treats apart
ArtistSites == {"fanbox", "e-hentai", "pixiv"}

\* what the URL dispatch may detect; "none" is Python's None
Sites == ArtistSites \cup {"danbooru", "twitter", "none"}

\* the rating vocabulary of the target service
Safeties == {"safe", "sketchy", "unsafe"}

ListOf(l) == [kind |-> "list", val |-> l]
StrOf(str) == [kind |-> "str", val |-> str]

\* the 'tags' field of a sidecar
TagsFields ==
    {Absent, StrOf(<<"a", " ", "b", " ", "c">>), StrOf(<<"a", " ">> \o R18)}
    \cup {ListOf(l) : l \in {<<>>, <<R18>>, <<R18, A, R18>>, <<A, R18>>,
                             <<ArtistJohnDoe>>, <<Artistic, R18>>}}

\* the 'tag_string' field of a sidecar
TagStringFields == {Absent, StrOf(<<"a", " ", "b", " ", "c">>), ListOf(<<A>>)}

\* the 'user' field: absent, a mapping without 'name', a mapping with a name
UserFields ==
    {Absent, [kind |-> "dict", val |-> <<>>]}
    \cup {[kind |-> "named", val |-> n] : n \in {JohnDoe, <<"A", "b", U3000>>, R18}}

Sidecars == [tags : TagsFields, tag_string : TagStringFields,
             user : UserFields, rating : BOOLEAN]

\* what danbooru_client.search_artist may return: nothing, or a canonical name
FirstLookupResults == {<<>>, <<"c", "1">>}
SecondLookupResults == {<<>>, <<"c", "2">>}

\* what extract_twitter_artist may return
TwitterResults == {<<>>, <<<<"j", "d">>>>}

(***************************************************************************)
(* import_from_url.py: set_tags                                            *)
(***************************************************************************)
\* a str iterated as a list: its characters
Chars(str) == [k \in 1..Len(str) |-> <<str[k]>>]

\* set_tags, lines 76-81: the last tag that starts with 'artist' and holds a
\* colon gives the artist
RECURSIVE EHentaiArtist(_, _)
EHentaiArtist(tags, artist) ==
    IF tags = <<>> THEN artist
    ELSE LET tag == Head(tags)
             index == Find(tag, ":")
         IN EHentaiArtist(Tail(tags),
                IF StartsWith(tag, ArtistPrefix) /\ index # 0
                THEN Replace(SubSeq(tag, index + 1, Len(tag)), " ", <<"_">>)
                ELSE artist)

\* set_tags, lines 72-86; only called with 'tags' present
ExtractArtist(m, st) ==
    IF st = "e-hentai"
    THEN EHentaiArtist(IF m.tags.kind = "str" THEN Chars(m.tags.val) ELSE m.tags.val,
                       <<>>)
    ELSE IF m.user.kind = "named" THEN m.user.val ELSE <<>>

\* DropR18 without the removal
DropR18Kept(tags) == tags

\* set_tags, line 89
DropR18(tags) == RemoveFirst(tags, R18)

\* set_tags, lines 92-94
ArtistSanitized(artist) ==
    Replace(Replace(Lower(artist), " ", <<"_">>), U3000, <<>>)

\* set_tags, lines 91 and 96-97: the names search_artist is asked for
ArtistLookups(artist, r1) ==
    IF Truthy(r1) THEN <<artist>> ELSE <<artist, ArtistSanitized(artist)>>

\* set_tags, line 98: the tag appended for the artist
ArtistTag(artist, r1, r2) ==
    LET canon_artist == IF Truthy(r1) THEN r1 ELSE r2
    IN IF Truthy(canon_artist) THEN canon_artist ELSE Replace(artist, " ", <<"_">>)

\* an outcome of the normalization step of one file: it raised or returned;
\* kind "list": tags is what set_tags hands to check_tags; kind "str": a str
\* is handed over instead, kept in str
Outcome(raises, kind, tags, str, safety, artist, lookups, found) ==
    [ran |-> TRUE, raises |-> raises, kind |-> kind, tags |-> tags, str |-> str,
     safety |-> safety, artist |-> artist, lookups |-> lookups, found |-> found]

Raises(safety, artist, lookups, found) ==
    Outcome(TRUE, "none", <<>>, <<>>, safety, artist, lookups, found)

Returns(tags, safety) ==
    Outcome(FALSE, "list", tags, <<>>, safety, <<>>, <<>>, <<>>)

\* set_tags, lines 74-98: case 'fanbox' | 'e-hentai' | 'pixiv'
SetTagsArtistSite(m, st, safety, r1, r2) ==
    IF m.tags.kind = "absent"
    THEN \* metadata['tags'] raises KeyError (line 76 or 87)
         Raises(safety, <<>>, <<>>, <<>>)
    ELSE
    LET artist == ExtractArtist(m, st)
        hasR18 == IF m.tags.kind = "list" THEN Contains(m.tags.val, R18)
                  ELSE SubstringIn(R18, m.tags.val)
        safety1 == IF hasR18 THEN "unsafe" ELSE safety
        lookups == IF Truthy(artist) THEN ArtistLookups(artist, r1) ELSE <<>>
        found == IF Truthy(artist)
                 THEN (IF Truthy(r1) THEN <<r1>> ELSE <<r1, r2>>) ELSE <<>>
    IN IF m.tags.kind = "str"
       THEN IF hasR18
            THEN \* str has no remove (line 89)
                 Raises(safety1, artist, <<>>, <<>>)
            ELSE IF Truthy(artist)
            THEN \* str has no append (line 98)
                 Raises(safety1, artist, lookups, found)
            ELSE Outcome(FALSE, "str", <<>>, m.tags.val, safety1, artist, <<>>, <<>>)
       ELSE LET tags1 == IF hasR18 THEN DropR18(m.tags.val) ELSE m.tags.val
                tags2 == IF Truthy(artist)
                         THEN Append(tags1, ArtistTag(artist, r1, r2)) ELSE tags1
            IN Outcome(FALSE, "list", tags2, <<>>, safety1, artist, lookups, found)

\* set_tags, lines 99-107: case _
SetTagsOtherSite(m, safety) ==
    IF m.tags.kind = "str" THEN Returns(SplitWs(m.tags.val), safety)
    ELSE IF m.tags.kind = "list" THEN Returns(m.tags.val, safety)
    ELSE IF m.tag_string.kind = "absent"
    THEN \* metadata['tag_string'] raises KeyError (line 104)
         Raises(safety, <<>>, <<>>, <<>>)
    ELSE IF m.tag_string.kind = "str"
    THEN Returns(SplitWs(m.tag_string.val), safety)
    ELSE \* 'tags' was never set: metadata['tags'] raises KeyError (line 107)
         Raises(safety, <<>>, <<>>, <<>>)

\* set_tags, lines 71-107
SetTags(m, st, safety, r1, r2) ==
    IF st \in ArtistSites THEN SetTagsArtistSite(m, st, safety, r1, r2)
    ELSE SetTagsOtherSite(m, safety)

(***************************************************************************)
(* import_from_url.py: main                                                *)
(***************************************************************************)
\* main, lines 217-227: safety is convert_rating's result or the configured
\* default; tw is extract_twitter_artist's result
Normalize(m, st, safety, r1, r2, tw) ==
    IF m.tags.kind # "absent" \/ m.tag_string.kind # "absent"
    THEN SetTags(m, st, safety, r1, r2)
    ELSE IF st = "twitter" THEN Returns(tw, safety)
    ELSE Returns(<<>>, safety)

\* main, line 203
InitialFlag == FALSE

\* NextFlag with the upload's return value dropped
NextFlagKept(returned, flag) == flag

\* main, line 230: the flag becomes what upload_media.main returned
NextFlag(returned, flag) == returned

InitProc(e) ==
    /\ entry = e
    /\ pc = "parse"
    /\ exitStatus = -1
    /\ logged = FALSE
    /\ raised = FALSE
    /\ interrupted = FALSE

InitTag ==
    /\ InitProc("tag")
    /\ args \in [add : AddArgs, remove : RemoveArgs, url : BOOLEAN,
                  mode : {"append", "overwrite"}, update_implications : BOOLEAN]
    /\ graph \in IF args.update_implications THEN [Tags -> ImplLists]
                  ELSE {NoImplications}
    /\ posts \in SeqsUpTo(PriorPool, MaxPosts)
    /\ add_tags = <<>>
    /\ remove_tags = <<>>
    /\ post_prior = <<>>
    /\ post_tags = <<>>
    /\ alias = FALSE
    /\ idx = 0
    /\ expand_from = <<>>
    /\ seen = {}
    /\ updated = <<>>
    /\ given_add = <<>>
    /\ ImportIdle

\* the process ends: what is left of the run's state no longer changes
Exit(status) ==
    /\ pc' = "done"
    /\ exitStatus' = status

\* parse_args, lines 84-86: nothing to do, exit()
ParseArgsNothing ==
    /\ entry = "tag" /\ pc = "parse"
    /\ ~args.url /\ ~Truthy(args.add) /\ ~Truthy(args.remove)
    /\ ~args.update_implications
    /\ Exit(0)
    /\ UNCHANGED <<entry, logged, raised, interrupted, tagVars, importVars>>

\* parse_args, lines 88-104
ParseArgs ==
    /\ entry = "tag" /\ pc = "parse"
    /\ args.url \/ Truthy(args.add) \/ Truthy(args.remove)
       \/ args.update_implications
    /\ \E scraped \in ScrapePool : add_tags' = ParsedAddTags(args, scraped)
    /\ given_add' = add_tags'
    /\ remove_tags' = ParseRemoveTags(args.remove)
    /\ pc' = "query"
    /\ UNCHANGED <<entry, exitStatus, logged, raised, interrupted, args, graph,
                   posts, post_prior, post_tags, alias, idx, expand_from, seen,
                   updated, importVars>>

\* main, lines 128-134: the generator yields nothing, exit()
NoPostsFound ==
    /\ entry = "tag" /\ pc = "query"
    /\ posts = <<>>
    /\ Exit(0)
    /\ UNCHANGED <<entry, logged, raised, interrupted, tagVars, importVars>>

\* main, lines 128-136: next(posts) yields the total
FoundPosts ==
    /\ entry = "tag" /\ pc = "query"
    /\ pc' = "loop"
    /\ UNCHANGED <<entry, exitStatus, logged, raised, interrupted, tagVars, importVars>>

\* main, lines 138-157: the next post, its mode and its removals
TagPost ==
    /\ entry = "tag" /\ pc = "loop"
    /\ posts # <<>>
    /\ post_prior' = Head(posts)
    /\ \E t \in ApplyMode(args.mode, Head(posts), add_tags) :
           post_tags' = RemoveTags(t, remove_tags)
    /\ alias' = (args.mode = "overwrite" /\ Truthy(add_tags) /\ ~Truthy(remove_tags))
    /\ expand_from' = post_tags'
    /\ seen' = {}
    /\ idx' = 1
    /\ pc' = IF args.update_implications THEN "implications" ELSE "update"
    /\ UNCHANGED <<entry, exitStatus, logged, raised, interrupted, args, add_tags,
                   remove_tags, graph, posts, updated, given_add, importVars>>

\* main, lines 158-163: one iteration of "for tag in post.tags"; the list
\* iterator reads the list's current length, so appended tags are visited
ImplicationStep ==
    /\ entry = "tag" /\ pc = "implications"
    /\ idx <= Len(post_tags)
    /\ LET szuru_tag == GetTag(post_tags[idx])
           grown == AppendImplications(post_tags, szuru_tag.implications)
       IN /\ Len(grown) <= MaxTagsLen
          /\ post_tags' = grown
          /\ add_tags' = IF alias THEN grown ELSE add_tags
    /\ seen' = seen \cup {SubSeq(post_tags, idx, Len(post_tags))}
    /\ idx' = idx + 1
    /\ UNCHANGED <<procVars, args, remove_tags, graph, posts, post_prior, alias,
                   expand_from, updated, given_add, importVars>>

\* main, line 158: the iterator is exhausted
ImplicationsDone ==
    /\ entry = "tag" /\ pc = "implications"
    /\ idx > Len(post_tags)
    /\ pc' = "update"
    /\ UNCHANGED <<entry, exitStatus, logged, raised, interrupted, tagVars, importVars>>

\* main, line 165
UpdatePost ==
    /\ entry = "tag" /\ pc = "update"
    /\ updated' = Append(updated, [prior |-> post_prior, from |-> expand_from,
                                    tags |-> post_tags])
    /\ posts' = Tail(posts)
    /\ pc' = "loop"
    /\ UNCHANGED <<entry, exitStatus, logged, raised, interrupted, args, add_tags,
                   remove_tags, graph, post_prior, post_tags, alias, idx,
                   expand_from, seen, given_add, importVars>>

\* main, line 167, and the return of main
FinishTagging ==
    /\ entry = "tag" /\ pc = "loop"
    /\ posts = <<>>
    /\ Exit(0)
    /\ UNCHANGED <<entry, logged, raised, interrupted, tagVars, importVars>>

\* a call of main's body raises (scrape_url_tags, get_posts, the generator,
\* getTag, update_post); the exception reaches logger.catch, line 121
TagApiRaises ==
    /\ entry = "tag" /\ pc \in {"parse", "query", "loop", "implications", "update"}
    /\ raised' = TRUE
    /\ logged' = TRUE
    /\ Exit(LoggerCatchStatus)
    /\ UNCHANGED <<entry, interrupted, tagVars, importVars>>

\* main, lines 168-171
TagKeyboardInterrupt ==
    /\ entry = "tag" /\ pc # "done"
    /\ interrupted' = TRUE
    /\ Exit(1)
    /\ UNCHANGED <<entry, logged, raised, tagVars, importVars>>

(***************************************************************************)
(* import_from_url.py: the run                                             *)
(***************************************************************************)
\* the tag pipeline's state while the import pipeline runs
TagIdle ==
    /\ graph = NoImplications
    /\ posts = <<>>
    /\ add_tags = <<>>
    /\ remove_tags = <<>>
    /\ post_prior = <<>>
    /\ post_tags = <<>>
    /\ alias = FALSE
    /\ idx = 0
    /\ expand_from = <<>>
    /\ seen = {}
    /\ updated = <<>>
    /\ given_add = <<>>

InitImport ==
    /\ InitProc("import")
    /\ args \in [urls : BOOLEAN, input_file : BOOLEAN]
    /\ TagIdle
    /\ ImportIdle

\* parse_args, lines 64-66: neither URLs nor an input file, exit(1)
ImportUsage ==
    /\ entry = "import" /\ pc = "parse"
    /\ ~args.urls /\ ~args.input_file
    /\ Exit(1)
    /\ UNCHANGED <<entry, logged, raised, interrupted, tagVars, importVars>>

\* main, lines 112-203: the site dispatch, the downloader run to its end,
\* the list of downloaded files, the flag's first value
Download ==
    /\ entry = "import" /\ pc = "parse"
    /\ args.urls \/ args.input_file
    /\ site' \in IF args.urls THEN Sites ELSE {"none"}
    /\ downloaded' = TRUE
    /\ files_left' \in 0..MaxFiles
    /\ dir_exists' \in IF files_left' > 0 THEN {TRUE} ELSE BOOLEAN
    /\ saucenao_limit_reached' = InitialFlag
    /\ pc' = "files"
    /\ UNCHANGED <<entry, exitStatus, logged, raised, interrupted, tagVars,
                   metadata, norm, uploads>>

\* main, lines 212-215: the sidecar of the next file is read
LoadSidecar ==
    /\ entry = "import" /\ pc = "files"
    /\ files_left > 0
    /\ metadata' \in Sidecars
    /\ norm' = NoNorm
    /\ pc' = "loaded"
    /\ UNCHANGED <<entry, exitStatus, logged, raised, interrupted, tagVars, site,
                   files_left, dir_exists, downloaded, saucenao_limit_reached,
                   uploads>>

\* main, lines 217-227; an exception of set_tags leaves main through
\* logger.catch, line 110
NormalizeFile ==
    /\ entry = "import" /\ pc = "loaded"
    /\ \E safety \in Safeties, r1 \in FirstLookupResults,
          r2 \in SecondLookupResults, tw \in TwitterResults :
           norm' = Normalize(metadata, site, safety, r1, r2, tw)
    /\ IF norm'.raises
       THEN /\ raised' = TRUE
            /\ logged' = TRUE
            /\ Exit(LoggerCatchStatus)
       ELSE /\ pc' = "normalized"
            /\ UNCHANGED <<exitStatus, logged, raised>>
    /\ UNCHANGED <<entry, interrupted, tagVars, site, files_left, dir_exists,
                   downloaded, metadata, saucenao_limit_reached, uploads>>

\* main, lines 229-230: the upload call and the flag it returns; the record
\* has been consumed
Upload ==
    /\ entry = "import" /\ pc = "normalized"
    /\ \E returned \in BOOLEAN :
           /\ uploads' = Append(uploads, [passed |-> saucenao_limit_reached,
                                          returned |-> returned])
           /\ saucenao_limit_reached' = NextFlag(returned, saucenao_limit_reached)
    /\ files_left' = files_left - 1
    /\ metadata' = NoMetadata
    /\ norm' = NoNorm
    /\ pc' = "files"
    /\ UNCHANGED <<entry, exitStatus, logged, raised, interrupted, tagVars, site,
                   dir_exists, downloaded>>

\* main, lines 232-236, and the return of main
Cleanup ==
    /\ entry = "import" /\ pc = "files"
    /\ files_left = 0
    /\ dir_exists' = FALSE
    /\ Exit(0)
    /\ UNCHANGED <<entry, logged, raised, interrupted, tagVars, site, files_left,
                   downloaded, metadata, norm, saucenao_limit_reached, uploads>>

\* a call of the loop body raises: the sidecar is missing or no JSON (line
\* 212-213), generate_src or convert_rating (215-218), the upload (229-230);
\* the exception leaves the loop and main through logger.catch, line 110
ImportFileRaises ==
    /\ entry = "import"
    /\ \/ pc = "files" /\ files_left > 0
       \/ pc \in {"loaded", "normalized"}
    /\ raised' = TRUE
    /\ logged' = TRUE
    /\ Exit(LoggerCatchStatus)
    /\ UNCHANGED <<entry, interrupted, tagVars, importVars>>

\* a KeyboardInterrupt is no Exception: logger.catch lets it through and the
\* interpreter dies of it
ImportKeyboardInterrupt ==
    /\ entry = "import" /\ pc # "done"
    /\ interrupted' = TRUE
    /\ Exit(130)
    /\ UNCHANGED <<entry, logged, raised, tagVars, importVars>>

Init == InitTag \/ InitImport

Next ==
    \/ ParseArgsNothing \/ ParseArgs \/ NoPostsFound \/ FoundPosts \/ TagPost
    \/ ImplicationStep \/ ImplicationsDone \/ UpdatePost \/ FinishTagging
    \/ TagApiRaises \/ TagKeyboardInterrupt
    \/ ImportUsage \/ Download \/ LoadSidecar \/ NormalizeFile \/ Upload
    \/ Cleanup \/ ImportFileRaises \/ ImportKeyboardInterrupt

Spec == Init /\ [][Next]_vars

(***************************************************************************)
(* Properties of the tag pipeline.                                         *)
(***************************************************************************)
\* the tags reachable from S along the implications of the target service
RECURSIVE Closure(_)
Closure(S) ==
    LET more == S \cup UNION {Range(graph[t]) : t \in S}
    IN IF more = S THEN S ELSE Closure(more)

\* C1, as claimed: in mode 'overwrite' the tag set sent with every
\* update_post is exactly the set of add-tags of the command line, whatever
\* the post's prior tags.
C1_OverwriteSendsExactlyAddTags ==
    entry = "tag" =>
        (args.mode = "overwrite" =>
            \A k \in 1..Len(updated) : Range(updated[k].tags) = Range(given_add))

\* C1, amended: in mode 'overwrite' with a non-empty add-tag list the tag set
\* sent with update_post is the add-tags minus the remove-tags, whatever the
\* post's prior tags, extended by the tags these imply when implication
\* update is on; with an empty add-tag list the prior tags take the place of
\* the add-tags.
C1_OverwriteSendsAddMinusRemove ==
    entry = "tag" =>
        (args.mode = "overwrite" =>
            \A k \in 1..Len(updated) :
                LET u == updated[k]
                    base == IF Truthy(given_add) THEN Range(given_add)
                            ELSE Range(u.prior)
                    kept == base \ Range(remove_tags)
                IN Range(u.tags) = IF args.update_implications THEN Closure(kept)
                                   ELSE kept)

\* a post with a prior tag that is no add-tag was overwritten, and a
\* remove-tag took one of the add-tags away
C1_Witness ==
    /\ entry = "tag"
    /\ args.mode = "overwrite"
    /\ ~args.update_implications
    /\ \E k \in 1..Len(updated) :
           /\ Truthy(given_add)
           /\ Range(updated[k].prior) \ Range(given_add) # {}
           /\ Range(given_add) \cap Range(remove_tags) # {}
           /\ Range(updated[k].tags) = Range(given_add) \ Range(remove_tags)
           /\ Range(updated[k].tags) # {}

\* C2, as claimed: with implication update on, the list sent with
\* update_post holds a tag that was on the post as often as before (it is
\* not appended again), and a tag that was not on the post and is implied by
\* a tag of the post exactly once.
C2_ImpliedTagExactlyOnce ==
    entry = "tag" =>
        (args.update_implications =>
            \A k \in 1..Len(updated) : \A t \in Tags :
                LET u == updated[k] IN
                /\ Contains(u.from, t) => Count(u.tags, t) = Count(u.from, t)
                /\ (~Contains(u.from, t)
                    /\ \E q \in Range(u.from) : Contains(graph[q], t))
                   => Count(u.tags, t) = 1)

\* C3: in mode 'append' with implication update off, the tag set sent with
\* update_post is (prior tags of the post UNION add-tags) MINUS remove-tags.
C3_AppendSendsUnionMinusRemove ==
    entry = "tag" =>
        (args.mode = "append" /\ ~args.update_implications =>
            \A k \in 1..Len(updated) :
                Range(updated[k].tags) =
                    (Range(updated[k].prior) \cup Range(given_add))
                        \ Range(remove_tags))

\* a post was updated in mode 'append' that gained an add-tag it did not
\* have and lost a prior tag to the remove-tags
C3_Witness ==
    /\ entry = "tag"
    /\ args.mode = "append"
    /\ ~args.update_implications
    /\ \E k \in 1..Len(updated) :
           /\ Range(updated[k].tags) \ Range(updated[k].prior) # {}
           /\ Range(updated[k].prior) \ Range(updated[k].tags) # {}
           /\ Range(given_add) \cap Range(remove_tags) # {}

\* C10, as claimed: the implication expansion of every post terminates. With
\* TagEqualsName as it is, an iteration of "for tag in post.tags" depends on
\* the unvisited part of post.tags and on the implication graph alone, so an
\* expansion that terminates never meets the same unvisited part at two loop
\* heads: the formula says that no loop head repeats the unvisited part of
\* an earlier one.
C10_ExpansionTerminates ==
    (entry = "tag" /\ pc = "implications" /\ idx <= Len(post_tags))
        => SubSeq(post_tags, idx, Len(post_tags)) \notin seen

(***************************************************************************)
(* Properties of both entry points.                                        *)
(***************************************************************************)
\* C6, as claimed: when an exception other than a user interrupt escapes the
\* body of main, it is logged and the process ends with a non-zero status; a
\* run ends with status 0 only when no such exception occurred.
C6_EscapedExceptionExitsNonZero ==
    pc = "done" =>
        /\ raised => (logged /\ exitStatus # 0)
        /\ exitStatus = 0 => ~raised

(***************************************************************************)
(* Properties of the import pipeline.                                      *)
(***************************************************************************)
\* C4, as claimed: whatever the origin site, after set_tags a record whose
\* tag list holds 'R-18' has safety 'unsafe' and the list handed to the
\* final check holds no 'R-18'.
C4_R18AlwaysUnsafeAndRemoved ==
    (entry = "import" /\ pc = "normalized" /\ metadata.tags.kind = "list") =>
        (Contains(metadata.tags.val, R18) =>
            norm.safety = "unsafe" /\ ~Contains(norm.tags, R18))

\* the tag set_tags appended for the artist, if any
AppendedArtistTag(n) ==
    IF Truthy(n.artist) THEN <<n.tags[Len(n.tags)]>> ELSE <<>>

\* C4, amended: for the origins fanbox, e-hentai and pixiv, after set_tags a
\* record whose tag list holds 'R-18' has safety 'unsafe', and one
\* occurrence of 'R-18' is gone from the list handed to the final check: the
\* list holds no 'R-18' when the token occurred once and the artist tag
\* appended is not itself 'R-18'.
C4_R18UnsafeAndOneRemoved ==
    (entry = "import" /\ pc = "normalized" /\ metadata.tags.kind = "list") =>
        (site \in ArtistSites /\ Contains(metadata.tags.val, R18) =>
            /\ norm.safety = "unsafe"
            /\ Count(norm.tags, R18) =
                   Count(metadata.tags.val, R18) - 1
                       + Count(AppendedArtistTag(norm), R18)
            /\ (Count(metadata.tags.val, R18) = 1
                /\ ~Contains(AppendedArtistTag(norm), R18))
               => ~Contains(norm.tags, R18))

\* a pixiv record with 'R-18' among its tags and a rating that converts to
\* 'safe' was normalized: it is unsafe and the token is gone
C4_Witness ==
    /\ entry = "import"
    /\ pc = "normalized"
    /\ site = "pixiv"
    /\ metadata.tags.kind = "list"
    /\ metadata.tags.val = <<A, R18>>
    /\ metadata.rating
    /\ norm.safety = "unsafe"
    /\ norm.tags = <<A>>

\* the artist name as the claim extracts it: for e-hentai the text after the
\* colon of the artist tag, for the others user.name
RECURSIVE ClaimedEHentaiName(_, _)
ClaimedEHentaiName(tags, name) ==
    IF tags = <<>> THEN name
    ELSE LET tag == Head(tags)
             index == Find(tag, ":")
         IN ClaimedEHentaiName(Tail(tags),
                IF StartsWith(tag, ArtistPrefix) /\ index # 0
                THEN SubSeq(tag, index + 1, Len(tag)) ELSE name)

ClaimedArtistName(m, st) ==
    IF st = "e-hentai" THEN ClaimedEHentaiName(m.tags.val, <<>>)
    ELSE IF m.user.kind = "named" THEN m.user.val ELSE <<>>

\* the claim's sanitized name: lower-cased, spaces replaced by underscores,
\* U+3000 stripped
ClaimedSanitized(name) ==
    Replace(Replace(Lower(name), " ", <<"_">>), U3000, <<>>)

\* C5, as claimed: for fanbox, e-hentai and pixiv with a non-empty extracted
\* artist name, exactly one artist tag is appended: the result of the lookup
\* of the raw name if non-empty, else the result of a second lookup of the
\* sanitized name if non-empty, else the sanitized name; the second lookup
\* is issued only when the first returned nothing.
C5_ArtistTagChoice ==
    (entry = "import" /\ norm.ran /\ site \in ArtistSites
     /\ metadata.tags.kind = "list") =>
        LET name == ClaimedArtistName(metadata, site)
            sanitized == ClaimedSanitized(name)
            rest == IF Contains(metadata.tags.val, R18)
                    THEN RemoveFirst(metadata.tags.val, R18)
                    ELSE metadata.tags.val
        IN Truthy(name) =>
            /\ ~norm.raises
            /\ norm.lookups[1] = name
            /\ IF Truthy(norm.found[1])
               THEN /\ Len(norm.lookups) = 1
                    /\ norm.tags = Append(rest, norm.found[1])
               ELSE /\ norm.lookups = <<name, sanitized>>
                    /\ norm.tags = Append(rest,
                           IF Truthy(norm.found[2]) THEN norm.found[2]
                           ELSE sanitized)

\* C7, as claimed: at the end of every run that invoked the downloader and
\* was not ended by an interrupt, the temporary download directory is gone,
\* also when the processing of a file failed.
C7_TempDirRemovedAtEnd ==
    (entry = "import" /\ pc = "done" /\ downloaded /\ ~interrupted)
        => ~dir_exists

\* C8, as claimed: the normalization step of a file does not raise when an
\* optional field is missing, whatever the origin site; a 'tags' or
\* 'tag_string' string is split into a list; with neither field the tag list
\* is empty. Where the claim can be read in the code's favour it is: records
\* whose 'tags' is a string are looked at for the origins outside fanbox,
\* e-hentai and pixiv only, 'tag_string' is a string when present, and the
\* twitter branch, whose list is the result of extract_twitter_artist, is
\* left out of the last conjunct.
C8_MissingFieldsTolerated ==
    (entry = "import" /\ norm.ran /\ metadata.tag_string.kind # "list"
     /\ (metadata.tags.kind = "str" => site \notin ArtistSites)) =>
        /\ ~norm.raises
        /\ metadata.tags.kind = "str"
           => norm.kind = "list" /\ norm.tags = SplitWs(metadata.tags.val)
        /\ (metadata.tags.kind = "absent" /\ metadata.tag_string.kind = "str"
            /\ site \notin ArtistSites)
           => norm.kind = "list" /\ norm.tags = SplitWs(metadata.tag_string.val)
        /\ (metadata.tags.kind = "absent" /\ metadata.tag_string.kind = "absent"
            /\ site # "twitter")
           => norm.kind = "list" /\ norm.tags = <<>>

\* C9: the flag passed to the first upload is false, the flag passed to a
\* later upload is what the upload before it returned, and the flag main
\* holds between uploads is the one it will pass; hence, when every upload
\* so far returned true if passed true, every upload after one that
\* returned true was passed true.
C9_FlagThreadedThroughUploads ==
    entry = "import" =>
        /\ \A k \in 1..Len(uploads) :
               uploads[k].passed = IF k = 1 THEN FALSE ELSE uploads[k - 1].returned
        /\ (downloaded /\ pc # "done") =>
               saucenao_limit_reached =
                   IF uploads = <<>> THEN FALSE
                   ELSE uploads[Len(uploads)].returned
        /\ (\A k \in 1..Len(uploads) : uploads[k].passed => uploads[k].returned)
           => \A i, j \in 1..Len(uploads) :
                  (i < j /\ uploads[i].returned) => uploads[j].passed

\* the first upload was passed false and returned true, and the second
\* upload was passed true
C9_Witness ==
    /\ entry = "import"
    /\ Len(uploads) >= 2
    /\ ~uploads[1].passed
    /\ uploads[1].returned
    /\ uploads[2].passed

=============================================================================
